---- MODULE Spec2Model ----
(***************************************************************************)
(* A model of process_statscan_to_json.py: the StatCanJSONProcessor that   *)
(* turns Statistics Canada grocery price rows into normalized records.     *)
(*                                                                         *)
(* Text is modelled as TLA+ strings over ASCII; every regular expression   *)
(* of the source is modelled by a matcher that follows Python's re         *)
(* semantics (leftmost match, alternatives in declared order, greedy       *)
(* quantifiers with backtracking, \b as a word/non-word transition).       *)
(* Money is exact: product_price is an integer number of mills (1/1000 of  *)
(* a dollar), price_per_unit an integer number of cents after round(2).    *)
(***************************************************************************)
EXTENDS Integers, Sequences, FiniteSets, TLC

VARIABLES
    df,        \* process(): the DataFrame read from the CSV, a sequence of rows
    df_transformed, \* transform()'s working DataFrame, returned to process()
    pc,        \* process(): position in transform() / create_json_structure()
    prices,    \* create_json_structure(): the "prices" list of the document
    text,      \* a raw description handed to _clean_product_name
    steps,     \* values of the local `text` after each statement of the cleaner
    name,      \* the cleaned product name
    category,  \* the category inferred from name
    tpc,       \* position of the text functions' driver
    todo,      \* parallel map: row positions not yet taken by a worker
    chunk,     \* parallel map: worker -> the rows it holds
    wpc,       \* parallel map: worker -> position
    results    \* parallel map: the records collected so far

vars == <<df, df_transformed, pc, prices, text, steps, name, category, tpc, todo, chunk, wpc, results>>

----------------------------------------------------------------------------
(* Characters and strings                                                  *)

LowerLetters == "abcdefghijklmnopqrstuvwxyz"
UpperLetters == "ABCDEFGHIJKLMNOPQRSTUVWXYZ"
DigitChars == "0123456789"

CharAt(t, i) == IF i >= 1 /\ i <= Len(t) THEN SubSeq(t, i, i) ELSE ""

CharSet(s) == {SubSeq(s, i, i) : i \in 1..Len(s)}

LowerSet == CharSet(LowerLetters)
UpperSet == CharSet(UpperLetters)
DigitSet == CharSet(DigitChars)

\* \w of Python's re on the model's alphabet: letters, digits, underscore
WordChars == LowerSet \cup UpperSet \cup DigitSet \cup {"_"}

\* \s of Python's re on the model's alphabet
SpaceChars == {" "}

ToLowerMap ==
    [c \in UpperSet |->
        LET i == CHOOSE k \in 1..Len(UpperLetters) : SubSeq(UpperLetters, k, k) = c
        IN  SubSeq(LowerLetters, i, i)]

ToUpperMap ==
    [c \in LowerSet |->
        LET i == CHOOSE k \in 1..Len(LowerLetters) : SubSeq(LowerLetters, k, k) = c
        IN  SubSeq(UpperLetters, i, i)]

DigitValue ==
    [c \in DigitSet |->
        (CHOOSE k \in 1..Len(DigitChars) : SubSeq(DigitChars, k, k) = c) - 1]

CharLower(c) == IF c \in UpperSet THEN ToLowerMap[c] ELSE c
CharUpper(c) == IF c \in LowerSet THEN ToUpperMap[c] ELSE c

RECURSIVE LowerFrom(_, _)
LowerFrom(t, i) ==
    IF i > Len(t) THEN "" ELSE CharLower(CharAt(t, i)) \o LowerFrom(t, i + 1)

\* str.lower()
Lower(t) == LowerFrom(t, 1)

RECURSIVE TitleFrom(_, _, _)
TitleFrom(t, i, prevCased) ==
    IF i > Len(t) THEN ""
    ELSE LET c == CharAt(t, i)
             cased == c \in LowerSet \cup UpperSet
         IN  (IF ~cased THEN c
              ELSE IF prevCased THEN CharLower(c) ELSE CharUpper(c))
             \o TitleFrom(t, i + 1, cased)

\* str.title(): a cased letter is upper-cased after an uncased character
\* (or at the start) and lower-cased after a cased one
Title(t) == TitleFrom(t, 1, FALSE)

RECURSIVE LStripFrom(_, _)
LStripFrom(t, i) ==
    IF i > Len(t) THEN i
    ELSE IF CharAt(t, i) \in SpaceChars THEN LStripFrom(t, i + 1) ELSE i

RECURSIVE RStripFrom(_, _)
RStripFrom(t, j) ==
    IF j < 1 THEN j
    ELSE IF CharAt(t, j) \in SpaceChars THEN RStripFrom(t, j - 1) ELSE j

\* str.strip()
Strip(t) ==
    LET a == LStripFrom(t, 1)
        b == RStripFrom(t, Len(t))
    IN  IF a > b THEN "" ELSE SubSeq(t, a, b)

StartsWithAt(t, i, w) ==
    /\ i >= 1
    /\ i + Len(w) - 1 <= Len(t)
    /\ SubSeq(t, i, i + Len(w) - 1) = w

IsWordAt(t, i) == CharAt(t, i) \in WordChars
IsSpaceAt(t, i) == CharAt(t, i) \in SpaceChars
IsDigitAt(t, i) == CharAt(t, i) \in DigitSet

\* \b at the gap before position i (1 <= i <= Len(t) + 1)
Boundary(t, i) == IsWordAt(t, i - 1) # IsWordAt(t, i)

RECURSIVE SkipSpaces(_, _)
\* \s* from position j: the first position that holds no whitespace
SkipSpaces(t, j) == IF IsSpaceAt(t, j) THEN SkipSpaces(t, j + 1) ELSE j

RECURSIVE SkipDigits(_, _)
\* \d* from position j: the first position that holds no digit
SkipDigits(t, j) == IF IsDigitAt(t, j) THEN SkipDigits(t, j + 1) ELSE j

Min(S) == CHOOSE x \in S : \A y \in S : x <= y

----------------------------------------------------------------------------
(* Regex patterns for data extraction (class attributes, lines 42-56)      *)
(* Every matcher works on the lower-cased text (re.IGNORECASE) and yields  *)
(* the position just after the match, 0 when there is no match.            *)

\* <word>s?\b or <word>(s)?\b at position j: the optional s is greedy
WordEnd(t, j, w, plural) ==
    LET e == j + Len(w)
    IN  IF ~StartsWithAt(t, j, w) THEN 0
        ELSE IF plural /\ CharAt(t, e) = "s" /\ Boundary(t, e + 1) THEN e + 1
        ELSE IF Boundary(t, e) THEN e
        ELSE 0

\* the alternatives of a group, in declared order: the first that matches
RECURSIVE FirstAlt(_, _, _, _)
FirstAlt(t, j, alts, k) ==
    IF k > Len(alts) THEN [k |-> 0, end |-> 0]
    ELSE LET e == WordEnd(t, j, alts[k].w, alts[k].s)
         IN  IF e # 0 THEN [k |-> k, end |-> e] ELSE FirstAlt(t, j, alts, k + 1)

\* PER_UNIT_EXPR = per\s+(kilogram|kg|gram|g|litre|l|ml|millilitre)s?\b
PER_UNIT_EXPR ==
    << [w |-> "kilogram", s |-> TRUE], [w |-> "kg", s |-> TRUE],
       [w |-> "gram", s |-> TRUE], [w |-> "g", s |-> TRUE],
       [w |-> "litre", s |-> TRUE], [w |-> "l", s |-> TRUE],
       [w |-> "ml", s |-> TRUE], [w |-> "millilitre", s |-> TRUE] >>

\* PACKAGE_SIZE_EXPR's unit group:
\* (kg|kilogram(s)?|g|gram(s)?|l|litre(s)?|ml|millilitre(s)?)\b
PACKAGE_SIZE_UNITS ==
    << [w |-> "kg", s |-> FALSE], [w |-> "kilogram", s |-> TRUE],
       [w |-> "g", s |-> FALSE], [w |-> "gram", s |-> TRUE],
       [w |-> "l", s |-> FALSE], [w |-> "litre", s |-> TRUE],
       [w |-> "ml", s |-> FALSE], [w |-> "millilitre", s |-> TRUE] >>

\* QUANTITY_EXPR's word group: (dozen|bags?|packs?|items?)\b
QUANTITY_WORDS ==
    << [w |-> "dozen", s |-> FALSE], [w |-> "bag", s |-> TRUE],
       [w |-> "pack", s |-> TRUE], [w |-> "item", s |-> TRUE] >>

\* UNIT_GARBAGE, its alternatives in order:
\* \b(kilo)?gram(s)?\b | \b(litre|litres|liter|liters)\b | \bunit\b
UNIT_GARBAGE ==
    << [w |-> "kilogram", s |-> TRUE], [w |-> "gram", s |-> TRUE],
       [w |-> "litre", s |-> FALSE], [w |-> "litres", s |-> FALSE],
       [w |-> "liter", s |-> FALSE], [w |-> "liters", s |-> FALSE],
       [w |-> "unit", s |-> FALSE] >>

NoMatch == [end |-> 0, value |-> "", unit |-> ""]

\* per_unit_regex matched at position i of the lower-cased text t
PerUnitMatchAt(t, i) ==
    IF StartsWithAt(t, i, "per") /\ IsSpaceAt(t, i + 3)
    THEN LET j == SkipSpaces(t, i + 3)
             m == FirstAlt(t, j, PER_UNIT_EXPR, 1)
         IN  IF m.k = 0 THEN NoMatch
             ELSE [end |-> m.end, value |-> "", unit |-> PER_UNIT_EXPR[m.k].w]
    ELSE NoMatch

\* \b(\d+(\.\d+)?) at position i: the position after the number, 0 if none
NumberEnd(t, i) ==
    IF ~(Boundary(t, i) /\ IsDigitAt(t, i)) THEN 0
    ELSE LET d == SkipDigits(t, i)
         IN  IF CharAt(t, d) = "." /\ IsDigitAt(t, d + 1)
             THEN SkipDigits(t, d + 1)
             ELSE d

\* package_size_regex matched at position i of the lower-cased text t:
\* group(1) is the number, group(3) the unit word with its plural s
PackageSizeMatchAt(t, i) ==
    LET n == NumberEnd(t, i)
    IN  IF n = 0 THEN NoMatch
        ELSE LET j == SkipSpaces(t, n)
                 m == FirstAlt(t, j, PACKAGE_SIZE_UNITS, 1)
             IN  IF m.k = 0 THEN NoMatch
                 ELSE [end |-> m.end,
                       value |-> SubSeq(t, i, n - 1),
                       unit |-> SubSeq(t, j, m.end - 1)]

\* QUANTITY_EXPR = \b\d+\s*(dozen|bags?|packs?|items?)\b at position i
QuantityEndAt(t, i) ==
    IF ~(Boundary(t, i) /\ IsDigitAt(t, i)) THEN 0
    ELSE FirstAlt(t, SkipSpaces(t, SkipDigits(t, i)), QUANTITY_WORDS, 1).end

\* UNIT_GARBAGE at position i
UnitGarbageEndAt(t, i) ==
    IF ~Boundary(t, i) THEN 0 ELSE FirstAlt(t, i, UNIT_GARBAGE, 1).end

\* clean_regex = (PACKAGE_SIZE_EXPR)|(QUANTITY_EXPR)|(UNIT_GARBAGE) at i
CleanRegexEndAt(t, i) ==
    LET p == PackageSizeMatchAt(t, i).end
    IN  IF p # 0 THEN p
        ELSE LET q == QuantityEndAt(t, i)
             IN  IF q # 0 THEN q ELSE UnitGarbageEndAt(t, i)

\* regex.search(text): the leftmost position where MatchAt succeeds
RECURSIVE PerUnitSearchFrom(_, _)
PerUnitSearchFrom(t, i) ==
    IF i > Len(t) THEN NoMatch
    ELSE LET m == PerUnitMatchAt(t, i)
         IN  IF m.end # 0 THEN m ELSE PerUnitSearchFrom(t, i + 1)

\* self.per_unit_regex.search(text), re.IGNORECASE
per_unit_regex_search(s) == PerUnitSearchFrom(Lower(s), 1)

RECURSIVE PackageSizeSearchFrom(_, _)
PackageSizeSearchFrom(t, i) ==
    IF i > Len(t) THEN NoMatch
    ELSE LET m == PackageSizeMatchAt(t, i)
         IN  IF m.end # 0 THEN m ELSE PackageSizeSearchFrom(t, i + 1)

\* self.package_size_regex.search(text), re.IGNORECASE
package_size_regex_search(s) == PackageSizeSearchFrom(Lower(s), 1)

----------------------------------------------------------------------------
(* Numbers: float values are exact rationals [num, den] with den > 0       *)

Rat(n, d) == [num |-> n, den |-> d]

RatEq(a, b) == a.num * b.den = b.num * a.den

RECURSIVE DigitsToInt(_, _, _)
DigitsToInt(s, i, acc) ==
    IF i > Len(s) THEN acc
    ELSE DigitsToInt(s, i + 1, 10 * acc + DigitValue[CharAt(s, i)])

RECURSIVE Pow10(_)
Pow10(k) == IF k = 0 THEN 1 ELSE 10 * Pow10(k - 1)

\* float(s) for s matching \d+(\.\d+)?
ParseFloat(s) ==
    LET d == SkipDigits(s, 1)
    IN  IF d > Len(s) THEN Rat(DigitsToInt(s, 1, 0), 1)
        ELSE LET frac == SubSeq(s, d + 1, Len(s))
             IN  Rat(DigitsToInt(SubSeq(s, 1, d - 1) \o frac, 1, 0),
                     Pow10(Len(frac)))

\* n/d rounded to the nearest integer, ties to the even one (d > 0)
RoundHalfEven(n, d) ==
    LET q == n \div d
        r == n - q * d
    IN  IF 2 * r < d THEN q
        ELSE IF 2 * r > d THEN q + 1
        ELSE IF q % 2 = 0 THEN q ELSE q + 1

----------------------------------------------------------------------------
(* _format_date, lines 312-327                                             *)

\* re.match(r"^\d{4}-\d{2}$", date_str)
IsYearMonth(s) ==
    /\ Len(s) = 7
    /\ \A i \in {1, 2, 3, 4, 6, 7} : IsDigitAt(s, i)
    /\ CharAt(s, 5) = "-"

_format_date(date_str) ==
    LET stripped == Strip(date_str)
    IN  IF IsYearMonth(stripped) THEN stripped \o "-01" ELSE stripped

----------------------------------------------------------------------------
(* _extract_weight_and_unit, lines 329-380                                 *)

\* lines 347-358: the result for a matched per-unit phrase
PerUnitResult(unit_text) ==
    IF unit_text \in {"kilogram", "kg"} THEN <<Rat(1, 1), "kg">>
    ELSE IF unit_text \in {"gram", "g"} THEN <<Rat(1, 1), "kg">>
    ELSE IF unit_text \in {"litre", "l"} THEN <<Rat(1, 1), "L">>
    ELSE IF unit_text \in {"ml", "millilitre"} THEN <<Rat(1, 1), "L">>
    ELSE <<Rat(1, 1), "kg">>

\* a plausible slip: grams taken as kilograms, the division by 1000 left out
PackageResult_GramsUndivided(package_match) ==
    LET value == ParseFloat(package_match.value)
        unit == package_match.unit
    IN  IF unit = "g" \/ (StartsWithAt(unit, 1, "gram")
                          /\ ~StartsWithAt(unit, 1, "kilogram"))
        THEN <<value, "kg">>
        ELSE IF (\E i \in 1..Len(unit) : StartsWithAt(unit, i, "ml"))
                \/ StartsWithAt(unit, 1, "millilitre")
        THEN <<Rat(value.num, value.den * 1000), "L">>
        ELSE IF unit = "l" \/ StartsWithAt(unit, 1, "litre")
        THEN <<value, "L">>
        ELSE <<value, "kg">>

\* lines 363-377: the result for a matched package size
PackageResult(package_match) ==
    LET value == ParseFloat(package_match.value)
        unit == package_match.unit
    IN  IF unit = "g" \/ (StartsWithAt(unit, 1, "gram")
                          /\ ~StartsWithAt(unit, 1, "kilogram"))
        THEN <<Rat(value.num, value.den * 1000), "kg">>
        ELSE IF (\E i \in 1..Len(unit) : StartsWithAt(unit, i, "ml"))
                \/ StartsWithAt(unit, 1, "millilitre")
        THEN <<Rat(value.num, value.den * 1000), "L">>
        ELSE IF unit = "l" \/ StartsWithAt(unit, 1, "litre")
        THEN <<value, "L">>
        ELSE <<value, "kg">>

\* a plausible slip: the package size looked for before the per-unit phrase
_extract_weight_and_unit_PackageFirst(s) ==
    LET per_match == per_unit_regex_search(s)
        package_match == package_size_regex_search(s)
    IN  IF package_match.end # 0 THEN PackageResult(package_match)
        ELSE IF per_match.end # 0 THEN PerUnitResult(per_match.unit)
        ELSE <<Rat(1, 1), "unit">>

_extract_weight_and_unit(s) ==
    LET per_match == per_unit_regex_search(s)
        package_match == package_size_regex_search(s)
    IN  IF per_match.end # 0 THEN PerUnitResult(per_match.unit)
        ELSE IF package_match.end # 0 THEN PackageResult(package_match)
        ELSE <<Rat(1, 1), "unit">>

----------------------------------------------------------------------------
(* _clean_product_name, lines 382-414                                      *)

\* PER_EXPR = ,?\s*per\b.*$ matched at position i of the lower-cased text
PerExprMatchAt(t, i) ==
    LET j == SkipSpaces(t, IF CharAt(t, i) = "," THEN i + 1 ELSE i)
    IN  StartsWithAt(t, j, "per") /\ Boundary(t, j + 3)

RECURSIVE PerExprSubFrom(_, _, _)
PerExprSubFrom(s, t, i) ==
    IF i > Len(s) THEN s
    ELSE IF PerExprMatchAt(t, i) THEN SubSeq(s, 1, i - 1)
    ELSE PerExprSubFrom(s, t, i + 1)

\* re.sub(self.PER_EXPR, "", text, flags=re.IGNORECASE): the leftmost match
\* runs to the end of the text
PER_EXPR_sub(s) == PerExprSubFrom(s, Lower(s), 1)

RECURSIVE CleanRegexSubFrom(_, _, _)
CleanRegexSubFrom(s, t, i) ==
    IF i > Len(s) THEN ""
    ELSE LET e == CleanRegexEndAt(t, i)
         IN  IF e # 0 THEN CleanRegexSubFrom(s, t, e)
             ELSE CharAt(s, i) \o CleanRegexSubFrom(s, t, i + 1)

\* self.clean_regex.sub("", text): every non-overlapping match, left to right
clean_regex_sub(s) == CleanRegexSubFrom(s, Lower(s), 1)

RECURSIVE FindChar(_, _, _)
\* the first position >= i holding c, 0 if none
FindChar(s, c, i) ==
    IF i > Len(s) THEN 0
    ELSE IF CharAt(s, i) = c THEN i ELSE FindChar(s, c, i + 1)

RECURSIVE ParenSubFrom(_, _)
\* re.sub(r"\(.*?\)", "", text): from each "(" to the nearest ")" after it
ParenSubFrom(s, i) ==
    IF i > Len(s) THEN ""
    ELSE LET close == IF CharAt(s, i) = "(" THEN FindChar(s, ")", i + 1) ELSE 0
         IN  IF close # 0 THEN ParenSubFrom(s, close + 1)
             ELSE CharAt(s, i) \o ParenSubFrom(s, i + 1)

RECURSIVE SpecialSubFrom(_, _)
\* re.sub(r"[^\w\s]", "", text)
SpecialSubFrom(s, i) ==
    IF i > Len(s) THEN ""
    ELSE (IF CharAt(s, i) \in WordChars \cup SpaceChars THEN CharAt(s, i) ELSE "")
         \o SpecialSubFrom(s, i + 1)

RECURSIVE WhitespaceSubFrom(_, _)
\* re.sub(r"\s{2,}", " ", text)
WhitespaceSubFrom(s, i) ==
    IF i > Len(s) THEN ""
    ELSE IF IsSpaceAt(s, i) /\ IsSpaceAt(s, i + 1)
         THEN " " \o WhitespaceSubFrom(s, SkipSpaces(s, i))
         ELSE CharAt(s, i) \o WhitespaceSubFrom(s, i + 1)

\* a plausible slip: the whitespace collapsed before the special characters
\* are removed
CleanSteps_CollapseBeforeSpecial(s) ==
    LET s1 == PER_EXPR_sub(s)
        s2 == clean_regex_sub(s1)
        s3 == ParenSubFrom(s2, 1)
        s4 == WhitespaceSubFrom(s3, 1)
        s5 == SpecialSubFrom(s4, 1)
    IN  <<s1, s2, s3, s4, s5, Title(Strip(s5))>>

\* the values of the local `text` after lines 400, 403, 406, 409, 412, 414
CleanSteps(s) ==
    LET s1 == PER_EXPR_sub(s)
        s2 == clean_regex_sub(s1)
        s3 == ParenSubFrom(s2, 1)
        s4 == SpecialSubFrom(s3, 1)
        s5 == WhitespaceSubFrom(s4, 1)
    IN  <<s1, s2, s3, s4, s5, Title(Strip(s5))>>

_clean_product_name(s) == CleanSteps(s)[6]

----------------------------------------------------------------------------
(* CATEGORY_KEYWORDS (lines 60-114, an insertion-ordered dict) and         *)
(* _infer_category, lines 416-430                                          *)

CATEGORY_KEYWORDS ==
    <<
       [category |-> "vegetable", keywords |-> <<
          "potato", "sweet potato", "tomato", "carrot", "onion", "celery",
          "cucumber", "iceberg lettuce", "romaine lettuce", "broccoli",
          "bell pepper", "lemon", "lime", "avocado", "cabbage", "mushroom",
          "squash", "green salad" >>],
       [category |-> "fruit", keywords |-> <<
          "cantaloupe", "apple", "orange", "banana", "pear", "grape",
          "strawberry" >>],
       [category |-> "dairy_and_egg", keywords |-> <<
          "cow milk", "soy milk", "nut milk", "whole cream", "butter",
          "block cheese", "yogurt", "egg" >>],
       [category |-> "pork", keywords |-> <<
          "pork loin", "pork", "bacon" >>],
       [category |-> "beef", keywords |-> <<
          "beef stewing", "beef striploin", "beef top sirloin", "beef rib",
          "ground beef", "beef" >>],
       [category |-> "poultry", keywords |-> <<
          "whole chicken", "chicken breast", "chicken thigh",
          "chicken drumsticks", "chicken" >>],
       [category |-> "plant_based_protein", keywords |-> <<
          "tofu" >>],
       [category |-> "carbs", keywords |-> <<
          "dry pasta", "fresh pasta", "pasta", "brown rice", "white rice",
          "white bread", "flatbread", "pita", "crackers", "crisp bread" >>],
       [category |-> "seafood", keywords |-> <<
          "salmon", "shrimp", "tuna" >>],
       [category |-> "nuts_and_dry_beans", keywords |-> <<
          "peanut", "almond", "sunflower seed", "dried lentils",
          "dry bean", "legume", "bean" >>],
       [category |-> "seasoning", keywords |-> <<
          "ketchup", "mayonnaise", "salad dressing", "white sugar",
          "brown sugar" >>],
       [category |-> "baby_items", keywords |-> <<
          "baby food", "infant formula" >>],
       [category |-> "frozen_food", keywords |-> <<
          "frozen french fries", "frozen broccoli", "frozen green bean",
          "frozen corn", "frozen mixed vegetable", "frozen pea",
          "frozen pizza", "frozen spinach", "frozen strawberry" >>],
       [category |-> "deli", keywords |-> <<
          "wiener", "meatless burger", "hummus", "salsa" >>],
       [category |-> "canned_food", keywords |-> <<
          "canned tomato", "canned baked bean", "canned soup",
          "canned bean", "canned lentil", "canned corn", "canned peach",
          "canned pear", "canned salmon", "canned tuna" >>],
       [category |-> "snacks", keywords |-> <<
          "cookie", "cookies", "sweet biscuit", "biscuit" >>],
       [category |-> "baking_ingredients", keywords |-> <<
          "wheat flour", "wheet flour", "flour" >>],
       [category |-> "personal_care", keywords |-> <<
          "deodorant", "toothpaste", "tooth paste", "shampoo",
          "conditioner" >>],
       [category |-> "household_supply", keywords |-> <<
          "laundry detergent" >>],
       [category |-> "drink", keywords |-> <<
          "apple juice", "roasted coffee", "ground coffee", "coffee",
          "tea" >>],
       [category |-> "pantry_item", keywords |-> <<
          "peanut butter", "pasta sauce", "cereal" >>],
       [category |-> "oil", keywords |-> <<
          "margarine", "vegetable oil", "canola oil", "olive oil" >>]
    >>

\* a plausible slip: the keyword looked for as a substring, no \b around it
KeywordSearch_Substring(keyword, name_lower) ==
    \E i \in 1..Len(name_lower) : StartsWithAt(name_lower, i, keyword)

\* re.search(rf"\b{re.escape(keyword)}\b", name_lower)
KeywordSearch(keyword, name_lower) ==
    \E i \in 1..Len(name_lower) :
        /\ Boundary(name_lower, i)
        /\ StartsWithAt(name_lower, i, keyword)
        /\ Boundary(name_lower, i + Len(keyword))

RECURSIVE KeywordLoop(_, _, _)
\* the inner for loop from keyword k on: whether some keyword matches
KeywordLoop(name_lower, keywords, k) ==
    IF k > Len(keywords) THEN FALSE
    ELSE IF KeywordSearch(keywords[k], name_lower) THEN TRUE
    ELSE KeywordLoop(name_lower, keywords, k + 1)

RECURSIVE CategoryLoop(_, _)
\* the outer for loop from category c on; falling out of it returns "other"
CategoryLoop(name_lower, c) ==
    IF c > Len(CATEGORY_KEYWORDS) THEN "other"
    ELSE IF KeywordLoop(name_lower, CATEGORY_KEYWORDS[c].keywords, 1)
         THEN CATEGORY_KEYWORDS[c].category
    ELSE CategoryLoop(name_lower, c + 1)

_infer_category(n) == CategoryLoop(Lower(n), 1)

----------------------------------------------------------------------------
(* _parse_location, lines 432-451                                          *)

_parse_location(location) ==
    LET c1 == FindChar(location, ",", 1)
    IN  IF c1 = 0 THEN <<"", location>>
        ELSE LET c2 == FindChar(location, ",", c1 + 1)
                 last == IF c2 = 0 THEN Len(location) ELSE c2 - 1
             IN  <<Strip(SubSeq(location, 1, c1 - 1)),
                   Strip(SubSeq(location, c1 + 1, last))>>

----------------------------------------------------------------------------
(* transform, lines 168-250: one column-wise statement per operator        *)

\* df.rename(columns={...}), lines 190-197: a new frame, the caller's is kept
RenameColumns(d) ==
    [i \in 1..Len(d) |-> LET r == d[i] IN [index |-> r.index,
                           date |-> r.REF_DATE,
                           location |-> r.GEO,
                           product_raw |-> r.Products,
                           product_price |-> r.VALUE]]

\* line 200
FormatDates(d) ==
    [i \in 1..Len(d) |-> LET r == d[i] IN [r EXCEPT !.date = _format_date(r.date)]]

\* str.contains(self.PER_UNIT_EXPR, regex=True, case=False, na=False)
str_contains_PER_UNIT_EXPR(s) == PerUnitSearchFrom(Lower(s), 1).end # 0

\* lines 204-206
DetectPerUnit(d) ==
    [i \in 1..Len(d) |-> LET r == d[i] IN
        r @@ [is_per_unit |-> str_contains_PER_UNIT_EXPR(r.product_raw)]]

\* lines 209-211
ExtractWeights(d) ==
    [i \in 1..Len(d) |-> LET r == d[i] IN
        LET wu == _extract_weight_and_unit(r.product_raw)
        IN  r @@ [product_weight |-> wu[1], product_unit |-> wu[2]]]

\* lines 214-216
CleanNames(d) ==
    [i \in 1..Len(d) |-> LET r == d[i] IN
        r @@ [product_name |-> _clean_product_name(r.product_raw)]]

\* lines 219-221
InferCategories(d) ==
    [i \in 1..Len(d) |-> LET r == d[i] IN
        r @@ [product_category |-> _infer_category(r.product_name)]]

\* the lambda of lines 227-235 followed by .round(2): mills in, cents out
PricePerUnit(r) ==
    IF r.is_per_unit THEN RoundHalfEven(r.product_price, 10)
    ELSE IF r.product_weight.num > 0
         THEN RoundHalfEven(r.product_price * r.product_weight.den,
                            10 * r.product_weight.num)
    ELSE RoundHalfEven(r.product_price, 10)

\* a plausible slip: every row divided by the weight of the frame's first row
NormalizePrices_FirstRowWeight(d) ==
    [i \in 1..Len(d) |-> LET r == d[i] IN
        r @@ [price_per_unit |->
                 PricePerUnit([r EXCEPT !.product_weight = d[1].product_weight])]]

\* lines 226-237
NormalizePrices(d) ==
    [i \in 1..Len(d) |-> LET r == d[i] IN r @@ [price_per_unit |-> PricePerUnit(r)]]

\* line 240
NormalizeLocations(d) ==
    [i \in 1..Len(d) |-> LET r == d[i] IN [r EXCEPT !.location = Title(Strip(r.location))]]

\* lines 243-245
ParseLocations(d) ==
    [i \in 1..Len(d) |-> LET r == d[i] IN
        LET cp == _parse_location(r.location)
        IN  r @@ [city |-> cp[1], province |-> cp[2]]]

\* a plausible slip: >= in place of >
FilterInvalidPrices_NonNegative(d) ==
    SelectSeq(d, LAMBDA r : r.price_per_unit >= 0)

\* line 248: df[df["price_per_unit"] > 0]
FilterInvalidPrices(d) == SelectSeq(d, LAMBDA r : r.price_per_unit > 0)

\* the whole of transform(df)
transform(d) ==
    FilterInvalidPrices(ParseLocations(NormalizeLocations(NormalizePrices(
        InferCategories(CleanNames(ExtractWeights(DetectPerUnit(
            FormatDates(RenameColumns(d))))))))))

\* create_json_structure, lines 277-288: the price records
price_records(d) ==
    [i \in 1..Len(d) |-> LET r == d[i] IN [date |-> r.date,
                           product_name |-> r.product_name,
                           product_category |-> r.product_category,
                           price_per_unit |-> r.price_per_unit,
                           product_unit |-> r.product_unit,
                           location |-> r.location,
                           city |-> r.city,
                           province |-> r.province]]

----------------------------------------------------------------------------
(* Inputs                                                                  *)

\* the largest number of rows of an input table
MaxRows == 2

Dates == {"2023-01", "2023-05-15"}
Locations == {"toronto, ontario", "Canada"}
\* prices in mills: -1.00, 0.00, 0.004, 2.00
Prices == {-1000, 0, 4, 2000}

\* the rows of the multi-row tables
TableProducts ==
    {"Potatoes, 1 kilogram", "Beef, ground, per kilogram", "Bacon, 500 grams"}
TablePrices == {-1000, 4, 2000}
RawRows ==
    [REF_DATE : Dates, GEO : {"toronto, ontario"},
     Products : TableProducts, VALUE : TablePrices]

\* the descriptions of the single-row tables: a head followed by a tail
RowHeads == {"", "Beef, ground", "Pepper", "500g"}
RowTails ==
    {", per kilogram", " per kg", " Per Litres", " per ml", " grams",
     "500 grams", "0 grams", "1.5 grams", ", 1 kilogram", ", 2 litres",
     ", 1 dozen", ""}
RowProducts ==
    {h \o t : h \in RowHeads, t \in RowTails} \cup {"Potatoes, 1 kilogram"}
SingleRows ==
    [REF_DATE : Dates, GEO : Locations, Products : RowProducts, VALUE : Prices]

\* pd.read_csv: the rows get a RangeIndex
Indexed(rows) == [i \in 1..Len(rows) |-> rows[i] @@ [index |-> i - 1]]

Tables(rows, n) == UNION {[1..k -> rows] : k \in 1..n}

TextIdle ==
    /\ text = ""
    /\ steps = <<>>
    /\ name = ""
    /\ category = ""
    /\ tpc = "idle"

ParIdle ==
    /\ todo = {}
    /\ chunk = <<>>
    /\ wpc = <<>>
    /\ results = {}

\* process() after pd.read_csv, line 145
Init ==
    /\ \E rows \in Tables(RawRows, MaxRows) : df = Indexed(rows)
    /\ df_transformed = <<>>
    /\ pc = "loaded"
    /\ prices = <<>>
    /\ TextIdle
    /\ ParIdle

----------------------------------------------------------------------------
(* process(): transform() statement by statement, then the document        *)

Stage(from, to, frame) ==
    /\ pc = from
    /\ pc' = to
    /\ df_transformed' = frame
    /\ UNCHANGED <<df, prices, text, steps, name, category, tpc,
                   todo, chunk, wpc, results>>

Rename == Stage("loaded", "renamed", RenameColumns(df))
FormatDate == Stage("renamed", "dated", FormatDates(df_transformed))
FlagPerUnit == Stage("dated", "flagged", DetectPerUnit(df_transformed))
ExtractWeight == Stage("flagged", "extracted", ExtractWeights(df_transformed))
CleanName == Stage("extracted", "named", CleanNames(df_transformed))
InferCategory == Stage("named", "categorized", InferCategories(df_transformed))
NormalizePrice == Stage("categorized", "priced", NormalizePrices(df_transformed))
NormalizeLocation == Stage("priced", "located", NormalizeLocations(df_transformed))
ParseLocation == Stage("located", "parsed", ParseLocations(df_transformed))
FilterInvalid == Stage("parsed", "filtered", FilterInvalidPrices(df_transformed))

\* lines 153 and 252-310
CreateJsonStructure ==
    /\ pc = "filtered"
    /\ pc' = "done"
    /\ prices' = price_records(df_transformed)
    /\ UNCHANGED <<df, df_transformed, text, steps, name, category, tpc,
                   todo, chunk, wpc, results>>

Next ==
    \/ Rename
    \/ FormatDate
    \/ FlagPerUnit
    \/ ExtractWeight
    \/ CleanName
    \/ InferCategory
    \/ NormalizePrice
    \/ NormalizeLocation
    \/ ParseLocation
    \/ FilterInvalid
    \/ CreateJsonStructure

Spec == Init /\ [][Next]_vars

\* process() on a table of one row, the row drawn from a wider set
InitRow ==
    /\ \E r \in SingleRows : df = Indexed(<<r>>)
    /\ df_transformed = <<>>
    /\ pc = "loaded"
    /\ prices = <<>>
    /\ TextIdle
    /\ ParIdle

SpecRow == InitRow /\ [][Next]_vars

----------------------------------------------------------------------------
(* The text functions applied to one description                           *)

\* the largest number of fragments a description is put together from
MaxFragments == 3

Fragments ==
    <<"Milk", "Eggs", "Pepper", ", ", " - ", "1 kilogram", "1-dozen", "2%",
      "(fresh)">>

RECURSIVE Concat(_)
Concat(ss) == IF ss = <<>> THEN "" ELSE Head(ss) \o Concat(Tail(ss))

FragmentTexts ==
    {Concat([i \in DOMAIN f |-> Fragments[f[i]]]) :
        f \in UNION {[1..k -> 1..Len(Fragments)] : k \in 1..MaxFragments}}

KeywordTexts ==
    UNION {{CATEGORY_KEYWORDS[c].keywords[k] :
                k \in 1..Len(CATEGORY_KEYWORDS[c].keywords)} :
           c \in 1..Len(CATEGORY_KEYWORDS)}

SampleTexts ==
    {"Pork Loin Chop", "Chicken (price per kilogram)", "Potatoes, 1 kilogram",
     "Toilet paper, 12 rolls"}

Texts == FragmentTexts \cup KeywordTexts \cup SampleTexts

PipelineIdle ==
    /\ df = <<>>
    /\ df_transformed = <<>>
    /\ pc = "idle"
    /\ prices = <<>>

InitText ==
    /\ text \in Texts
    /\ steps = <<>>
    /\ name = ""
    /\ category = ""
    /\ tpc = "raw"
    /\ PipelineIdle
    /\ ParIdle

\* self._clean_product_name(text), as transform() calls it on product_raw
ApplyClean ==
    /\ tpc = "raw"
    /\ tpc' = "cleaned"
    /\ steps' = CleanSteps(text)
    /\ name' = _clean_product_name(text)
    /\ UNCHANGED <<df, df_transformed, pc, prices, text, category,
                   todo, chunk, wpc, results>>

\* the cleaner re-applied to its own output
ApplyCleanAgain ==
    /\ tpc = "cleaned"
    /\ tpc' = "recleaned"
    /\ name' = _clean_product_name(name)
    /\ UNCHANGED <<df, df_transformed, pc, prices, text, steps, category,
                   todo, chunk, wpc, results>>

\* self._infer_category(name), as transform() calls it on product_name
ApplyInfer ==
    /\ tpc = "cleaned"
    /\ tpc' = "classified"
    /\ category' = _infer_category(name)
    /\ UNCHANGED <<df, df_transformed, pc, prices, text, steps, name,
                   todo, chunk, wpc, results>>

NextText ==
    \/ ApplyClean
    \/ ApplyCleanAgain
    \/ ApplyInfer

SpecText == InitText /\ [][NextText]_vars

----------------------------------------------------------------------------
(* Rows mapped by a pool of workers, each running transform() on the rows  *)
(* it took, the records collected into one result                          *)

\* the number of workers of the pool
NumWorkers == 2

\* the largest number of rows of a table handed to the pool
MaxParRows == 2

ParRows ==
    [REF_DATE : {"2023-01"}, GEO : {"toronto, ontario"},
     Products : {"Potatoes, 1 kilogram", "Bacon, 500 grams"},
     VALUE : {4, 2000}]

Workers == 1..NumWorkers

Range(f) == {f[i] : i \in DOMAIN f}

RECURSIVE RowsAt(_, _, _)
\* the rows of d at the positions S, in the table's order
RowsAt(d, S, i) ==
    IF i > Len(d) THEN <<>>
    ELSE (IF i \in S THEN <<d[i]>> ELSE <<>>) \o RowsAt(d, S, i + 1)

InitPar ==
    /\ \E rows \in Tables(ParRows, MaxParRows) : df = Indexed(rows)
    /\ df_transformed = <<>>
    /\ pc = "parallel"
    /\ prices = <<>>
    /\ TextIdle
    /\ todo = 1..Len(df)
    /\ chunk = [w \in Workers |-> <<>>]
    /\ wpc = [w \in Workers |-> "idle"]
    /\ results = {}

\* an idle worker takes some of the rows nobody has taken
Take(w, S) ==
    /\ wpc[w] = "idle"
    /\ S # {}
    /\ S \subseteq todo
    /\ todo' = todo \ S
    /\ chunk' = [chunk EXCEPT ![w] = RowsAt(df, S, 1)]
    /\ wpc' = [wpc EXCEPT ![w] = "holding"]
    /\ UNCHANGED <<df, df_transformed, pc, prices, text, steps, name,
                   category, tpc, results>>

\* the worker runs transform() on its rows
Work(w) ==
    /\ wpc[w] = "holding"
    /\ chunk' = [chunk EXCEPT ![w] = transform(chunk[w])]
    /\ wpc' = [wpc EXCEPT ![w] = "transformed"]
    /\ UNCHANGED <<df, df_transformed, pc, prices, text, steps, name,
                   category, tpc, todo, results>>

\* the worker's records are added to the result
Collect(w) ==
    /\ wpc[w] = "transformed"
    /\ results' = results \cup Range(chunk[w])
    /\ chunk' = [chunk EXCEPT ![w] = <<>>]
    /\ wpc' = [wpc EXCEPT ![w] = "idle"]
    /\ UNCHANGED <<df, df_transformed, pc, prices, text, steps, name,
                   category, tpc, todo>>

NextPar ==
    \/ \E w \in Workers : \E S \in SUBSET todo : Take(w, S)
    \/ \E w \in Workers : Work(w)
    \/ \E w \in Workers : Collect(w)

SpecPar == InitPar /\ [][NextPar]_vars

----------------------------------------------------------------------------
(* Properties                                                              *)

Abs(x) == IF x < 0 THEN 0 - x ELSE x

\* c is n/d rounded to an integer: c lies within one half of n/d (d >= 0)
IsRoundedTo(c, n, d) == 2 * Abs(c * d - n) <= d

\* the stages of transform() in which the frame has its price_per_unit column
\* and all of its rows
PricedStages == {"priced", "located", "parsed"}

\* k occurs in s as a whole word or phrase: no word character on either side
OccursAsWord(k, s) ==
    \E i \in 1..Len(s) :
        /\ StartsWithAt(s, i, k)
        /\ ~IsWordAt(s, i - 1)
        /\ ~IsWordAt(s, i + Len(k))

PerUnitWords ==
    {"kilogram", "kg", "gram", "g", "litre", "l", "ml", "millilitre"}

\* the description holds "per", whitespace, a unit word with an optional
\* plural s, and then no further word character
MatchesPerUnit(s) ==
    LET t == Lower(s)
    IN  \E i \in 1..Len(t) : \E j \in (i + 4)..Len(t) : \E u \in PerUnitWords :
            /\ StartsWithAt(t, i, "per")
            /\ \A k \in (i + 3)..(j - 1) : IsSpaceAt(t, k)
            /\ StartsWithAt(t, j, u)
            /\ \/ ~IsWordAt(t, j + Len(u))
               \/ CharAt(t, j + Len(u)) = "s" /\ ~IsWordAt(t, j + Len(u) + 1)

\* C1: after transform() no record of the output prices list has
\* price_per_unit <= 0: the filter of line 248 drops every row whose rounded
\* per-unit price is zero or negative and keeps every row whose price is > 0.
C1_InvalidPricesDropped ==
    /\ [](pc = "done" =>
            \A i \in 1..Len(prices) : prices[i].price_per_unit > 0)
    /\ [][pc = "parsed" /\ pc' = "filtered" =>
            /\ \A i \in 1..Len(df_transformed) :
                   LET r == df_transformed[i]
                   IN  IF r.price_per_unit > 0
                       THEN r \in Range(df_transformed')
                       ELSE \A j \in 1..Len(df_transformed') :
                                df_transformed'[j].index # r.index
            /\ Range(df_transformed') \subseteq Range(df_transformed)
            /\ Len(df_transformed') <= Len(df_transformed)]_vars

\* C1 witness: a table of two rows, one kept and one dropped although its raw
\* price was positive (0.004 rounds to 0.00)
C1_Witness ==
    /\ pc = "done"
    /\ Len(df) = 2
    /\ Len(prices) = 1
    /\ \E i \in 1..2 :
           /\ df[i].VALUE = 4
           /\ df[i].Products = "Potatoes, 1 kilogram"
           /\ df_transformed[1].index # df[i].index

C2_Row ==
    [index |-> 0, REF_DATE |-> "2023-01", GEO |-> "toronto, ontario",
     Products |-> "Potatoes, 1 kilogram", VALUE |-> 2000]

\* C2: the input row {2023-01, "toronto, ontario", "Potatoes, 1 kilogram",
\* 2.00} produces exactly one record: 2023-01-01, Potatoes, vegetable, 2.00,
\* kg, "Toronto, Ontario", Toronto, Ontario.
C2_EndToEnd ==
    (pc = "done" /\ df = <<C2_Row>>) =>
        prices = << [date |-> "2023-01-01",
                     product_name |-> "Potatoes",
                     product_category |-> "vegetable",
                     price_per_unit |-> 200,
                     product_unit |-> "kg",
                     location |-> "Toronto, Ontario",
                     city |-> "Toronto",
                     province |-> "Ontario"] >>

\* C3: for every description that matches the PerUnit rule, also one that
\* holds a package size as well, the extracted weight is 1.0 with unit kg or
\* L, the is_per_unit flag is set, and price_per_unit is the raw price rounded
\* to 2 decimals, never divided by the package size.
C3_PerUnitPriceUnchanged ==
    pc \in PricedStages =>
        \A i \in 1..Len(df_transformed) :
            LET r == df_transformed[i]
            IN  MatchesPerUnit(r.product_raw) =>
                    /\ r.product_weight = Rat(1, 1)
                    /\ r.product_unit \in {"kg", "L"}
                    /\ r.is_per_unit
                    /\ IsRoundedTo(r.price_per_unit, r.product_price, 10)
                    /\ (r.product_price % 10 = 0 =>
                            r.price_per_unit * 10 = r.product_price)

\* C3 witness: "500g, per kilogram" at 2.00 is priced 2.00, not 4.00
C3_Witness ==
    /\ pc = "priced"
    /\ df_transformed[1].product_raw = "500g, per kilogram"
    /\ df_transformed[1].product_price = 2000
    /\ df_transformed[1].price_per_unit = 200
    /\ df_transformed[1].product_unit = "kg"

\* s is a number of the form digits or digits.digits
IsNumberText(s) ==
    /\ Len(s) >= 1
    /\ \A i \in 1..Len(s) : IsDigitAt(s, i) \/ CharAt(s, i) = "."
    /\ Cardinality({i \in 1..Len(s) : CharAt(s, i) = "."}) <= 1
    /\ IsDigitAt(s, 1)
    /\ IsDigitAt(s, Len(s))

\* the description is "<N> grams"
IsNGrams(s) ==
    /\ Len(s) > 6
    /\ SubSeq(s, Len(s) - 5, Len(s)) = " grams"
    /\ IsNumberText(SubSeq(s, 1, Len(s) - 6))

GramsOf(s) == ParseFloat(SubSeq(s, 1, Len(s) - 6))

\* C4 as stated: for every description "<N> grams", N = 0 included, the
\* extracted weight is (N/1000, "kg") and price_per_unit is
\* raw_price / (N/1000) rounded to 2 decimals.
C4_GramsPriceDivided ==
    pc \in PricedStages =>
        \A i \in 1..Len(df_transformed) :
            LET r == df_transformed[i]
                N == GramsOf(r.product_raw)
            IN  IsNGrams(r.product_raw) =>
                    /\ RatEq(r.product_weight, Rat(N.num, N.den * 1000))
                    /\ r.product_unit = "kg"
                    /\ IsRoundedTo(r.price_per_unit,
                                   100 * r.product_price * N.den, N.num)

\* C4 amended: for every description "<N> grams" the extracted weight is
\* (N/1000, "kg"); price_per_unit is raw_price / (N/1000) rounded to 2
\* decimals when N > 0, and the raw price rounded to 2 decimals when N = 0.
C4_GramsPriceDividedWhenPositive ==
    pc \in PricedStages =>
        \A i \in 1..Len(df_transformed) :
            LET r == df_transformed[i]
                N == GramsOf(r.product_raw)
            IN  IsNGrams(r.product_raw) =>
                    /\ RatEq(r.product_weight, Rat(N.num, N.den * 1000))
                    /\ r.product_unit = "kg"
                    /\ (N.num > 0 =>
                            IsRoundedTo(r.price_per_unit,
                                        100 * r.product_price * N.den, N.num))
                    /\ (N.num = 0 =>
                            IsRoundedTo(r.price_per_unit, r.product_price, 10))

\* C4 witness: "0 grams" at 2.00 keeps the price 2.00, and "500 grams" at
\* 2.00 would be 4.00
C4_Witness ==
    /\ pc = "priced"
    /\ df_transformed[1].product_raw = "0 grams"
    /\ df_transformed[1].product_price = 2000
    /\ df_transformed[1].price_per_unit = 200
    /\ df_transformed[1].product_weight.num = 0

RECURSIVE ScanOrderFrom(_)
ScanOrderFrom(c) ==
    IF c > Len(CATEGORY_KEYWORDS) THEN <<>>
    ELSE [k \in 1..Len(CATEGORY_KEYWORDS[c].keywords) |->
             [category |-> CATEGORY_KEYWORDS[c].category,
              keyword |-> CATEGORY_KEYWORDS[c].keywords[k]]]
         \o ScanOrderFrom(c + 1)

\* the declared (category, keyword) pairs in scanning order
ScanOrder == ScanOrderFrom(1)

\* the category of the first declared pair whose keyword occurs in the
\* lower-cased name as a whole word, "other" when there is none
FirstMatchingCategory(n) ==
    LET low == Lower(n)
        hits == {i \in 1..Len(ScanOrder) : OccursAsWord(ScanOrder[i].keyword, low)}
    IN  IF hits = {} THEN "other" ELSE ScanOrder[Min(hits)].category

\* C5: _infer_category returns the category of the first (category, keyword)
\* pair in declared order whose keyword occurs in the lower-cased name
\* delimited by word boundaries, and "other" when no pair matches;
\* "Pork Loin Chop" is classified "pork".
C5_FirstMatchWins ==
    tpc = "classified" =>
        /\ category = FirstMatchingCategory(name)
        /\ (name = "Pork Loin Chop" => category = "pork")

\* C5 witness: "Pork Loin Chop" has been classified "pork"
C5_Witness ==
    /\ tpc = "classified"
    /\ name = "Pork Loin Chop"
    /\ category = "pork"

UnitNouns == {"gram", "grams", "litre", "litres", "liter", "liters", "unit"}

\* positions a..b of s hold a whole word that stands between a "(" and the
\* next ")" of s
WordInParens(s, a, b) ==
    /\ a <= b
    /\ \A k \in a..b : IsWordAt(s, k)
    /\ ~IsWordAt(s, a - 1)
    /\ ~IsWordAt(s, b + 1)
    /\ \E i \in 1..(a - 1) : \E j \in (b + 1)..Len(s) :
           /\ CharAt(s, i) = "("
           /\ CharAt(s, j) = ")"
           /\ \A k \in (i + 1)..(j - 1) : CharAt(s, k) \notin {"(", ")"}

\* the word at a..b of s also occurs in s outside of a..b
OccursElsewhere(s, a, b) ==
    \E i \in 1..Len(s) :
        /\ i # a
        /\ StartsWithAt(Lower(s), i, Lower(SubSeq(s, a, b)))
        /\ ~IsWordAt(s, i - 1)
        /\ ~IsWordAt(s, i + b - a + 1)

C6_NoDigits == \A i \in 1..Len(name) : ~IsDigitAt(name, i)

C6_NoParentheticalContent ==
    \A a \in 1..Len(text) : \A b \in a..Len(text) :
        (WordInParens(text, a, b) /\ ~OccursElsewhere(text, a, b)) =>
            ~OccursAsWord(Lower(SubSeq(text, a, b)), Lower(name))

C6_NoUnitNoun == \A w \in UnitNouns : ~OccursAsWord(w, Lower(name))

\* C6: the output of _clean_product_name contains no digit, no parenthetical
\* content (no word that stood between "(" and ")" in the input) and no bare
\* unit noun (gram(s), litre(s)/liter(s), unit) as a word.
C6_CleanNameFreeOfNoise ==
    tpc = "cleaned" =>
        /\ C6_NoDigits
        /\ C6_NoParentheticalContent
        /\ C6_NoUnitNoun

\* the name holds no match of PER_EXPR and none of clean_regex
NoPatternsRemain(n) ==
    LET t == Lower(n)
    IN  \A i \in 1..Len(t) : ~PerExprMatchAt(t, i) /\ CleanRegexEndAt(t, i) = 0

\* C7 as stated: for every raw description x, clean(clean(x)) = clean(x).
C7_Idempotent ==
    tpc = "recleaned" => name = steps[6]

\* C7 amended: for every raw description x whose cleaned name holds no
\* further match of the cleaner's patterns (PER_EXPR, PackageSize, Quantity,
\* UnitNoise), clean(clean(x)) = clean(x).
C7_IdempotentOnceNoPatternsRemain ==
    (tpc = "recleaned" /\ NoPatternsRemain(steps[6])) => name = steps[6]

\* C7 witness: "Milk - Eggs" cleaned to "Milk Eggs" and cleaned again
C7_Witness ==
    /\ tpc = "recleaned"
    /\ text = "Milk - Eggs"
    /\ steps[6] = "Milk Eggs"
    /\ NoPatternsRemain(steps[6])
    /\ name = "Milk Eggs"

AllCollected ==
    /\ pc = "parallel"
    /\ todo = {}
    /\ \A w \in Workers : wpc[w] = "idle"

\* C8: rows are normalized independently: whatever rows each worker takes and
\* however the workers interleave, the collected records are those of the
\* sequential transform() of the whole table.
C8_RowsIndependent ==
    AllCollected => results = Range(transform(df))

\* C8 witness: a table of two rows has been mapped, one row kept and one
\* dropped
C8_Witness ==
    /\ AllCollected
    /\ Len(df) = 2
    /\ Cardinality(results) = 1

\* the description holds "per" as a word of its own
HasStandalonePer(s) == OccursAsWord("per", Lower(s))

\* C9: step 1 of _clean_product_name leaves a description that holds no
\* standalone word "per" unchanged (the ending of "pepper" or "paper" is no
\* such word).
C9_PerStripOnlyStandalone ==
    (tpc = "cleaned" /\ ~HasStandalonePer(text)) => steps[1] = text

\* C10: no declared keyword is shadowed: for every declared pair (c, k),
\* _infer_category of a name that is exactly k returns c.
C10_NoKeywordShadowed ==
    tpc = "classified" =>
        \A i \in 1..Len(ScanOrder) :
            Lower(name) = ScanOrder[i].keyword =>
                category = ScanOrder[i].category

====
